---- MODULE Spec2Model ----
(***************************************************************************)
(* ubx_rtk_base: the receiver control protocol (UbloxGnssReceiver, its     *)
(* Reader Loop and its command/acknowledgement correlation) and the RTCM3  *)
(* correction relay (start_rtcm3_tcp_server_streaming).                    *)
(*                                                                         *)
(* A behaviour is one session of one of the two units of concurrency: a    *)
(* receiver session (controller thread, reader thread, device) or a relay  *)
(* session (producer, relay thread, consumer, owner of the run flag).  The *)
(* relay gets its queues as parameters and nothing in the repository ties  *)
(* them to a receiver; running_queue is the run flag of the session's loop.*)
(* A receiver is driven by start_receiver (session "receiver") or by a     *)
(* client that calls start() and stop() in any order (session "client").   *)
(* A session "encoder" is one call of math_utils.value_to_precision_       *)
(* integers, the function that encodes a Position for the fixed mode.      *)
(***************************************************************************)
EXTENDS Integers, Sequences, FiniteSets, TLC

VARIABLES
    session,            \* "receiver" | "client" | "relay" | "encoder": what this behaviour runs
    \* ---- UbloxGnssReceiver ----
    serial_is_open,     \* the serial port of the receiver is open
    running_queue,      \* number of tokens in the session's running_queue (queue.Queue[bool])
    ack_queue,          \* ack_queue: the acknowledgement frames put and not yet got
    serial_in,          \* frames that arrived at the serial port and were not read
    serial_out,         \* commands written to the serial port, not yet seen by the device
    read_buffer,        \* frames io.BufferedReader pulled from the port, not yet decoded
    reader_pc,          \* position of read_messages_thread
    ctl_pc,             \* position of the controlling (main) thread
    todo,               \* commands the controlling thread has still to send
    callback_log,       \* the frames passed to callback, in call order
    signals,            \* termination signals delivered so far
    \* history of the receiver session
    emitted,            \* frames the device sent on its own (not answers)
    written,            \* commands written to the serial port so far
    ack_epoch,          \* for each entry of ack_queue: the value of written when it was put
    nak_returns,        \* sends that returned without raising on an ACK-NAK
    \* ---- start_rtcm3_tcp_server_streaming ----
    rtcm3_bytes_queue,  \* rtcm3_bytes_queue: the correction blocks put and not yet got
    relay_pc,           \* position of the relay thread
    conn,               \* the consumer's connection: "none", "pending", "open", "closed"
    listen_backlog,     \* later consumers connected to the listening socket, not accepted
    conn_stream,        \* the bytes written to the connection, in order
    \* history of the relay session
    enqueued,           \* every block put on rtcm3_bytes_queue, in order
    accepted_at,        \* Len(enqueued) when accept() returned, -1 before
    taken,              \* blocks got from rtcm3_bytes_queue so far
    flushed,            \* positions in enqueued of the blocks got and not written
    sent,               \* positions in enqueued of the blocks written, in order
    \* ---- value_to_precision_integers ----
    value,              \* the argument value, in units of 1/ValueUnit
    scale_factor,       \* the argument scale_factor
    decimal_places,     \* the argument decimal_places
    precision_integers  \* the pair returned, <<>> before the call

\* the receiver's state but running_queue, which the relay session has too
recv_rest == <<serial_is_open, ack_queue, serial_in, serial_out, read_buffer,
               reader_pc, ctl_pc, todo, callback_log, signals,
               emitted, written, ack_epoch, nak_returns>>

relay_vars == <<rtcm3_bytes_queue, relay_pc, conn, listen_backlog, conn_stream,
                enqueued, accepted_at, taken, flushed, sent>>

enc_vars == <<value, scale_factor, decimal_places, precision_integers>>

vars == <<session, running_queue, recv_rest, relay_vars, enc_vars>>

(***************************************************************************)
(* Bounds of the model.                                                    *)
(***************************************************************************)
\* frames the device sends on its own during a session
MaxFrames == 2
\* termination signals delivered during a session
MaxSignals == 2
\* correction blocks the producer puts during a session
MaxBlocks == 3
\* run tokens a client's calls of start() leave on running_queue
MaxStarts == 2
\* consumers that connect after the first one was accepted
MaxLateConsumers == 1
\* the largest magnitude of a value handed to value_to_precision_integers,
\* in units of 1/ValueUnit
MaxValue == 60

(***************************************************************************)
(* Message identities.  An identity is a string of pyubx2; the model keeps *)
(* its characters, because is_ack_message_correct takes the identity of    *)
(* the acknowledged message out of str(ack_message) with a regular         *)
(* expression.                                                             *)
(***************************************************************************)
UpperLetters == {"A", "B", "C", "D", "E", "F", "G", "H", "I", "J", "K", "L", "M",
                 "N", "O", "P", "Q", "R", "S", "T", "U", "V", "W", "X", "Y", "Z"}

\* the identities of the commands, as character sequences
IdentityChars(id) ==
    CASE id = "CFG-CFG"    -> <<"C", "F", "G", "-", "C", "F", "G">>
      [] id = "CFG-VALSET" -> <<"C", "F", "G", "-", "V", "A", "L", "S", "E", "T">>
      [] id = "CFG-NAV5"   -> <<"C", "F", "G", "-", "N", "A", "V", "5">>

\* get_factory_reset_message_for_ublox_gnss_receiver().identity
FactoryResetIdentity == "CFG-CFG"
\* get_configuration_ublox_message(cfg_data).identity: UBXMessage.config_set
ConfigurationIdentity == "CFG-VALSET"

\* the identities a command handed to send_message may have
CommandIdentities == {"CFG-CFG", "CFG-VALSET", "CFG-NAV5"}

(***************************************************************************)
(* Frames, as the codec (pyubx2.UBXReader) hands them to the Reader Loop.  *)
(***************************************************************************)
AckFrame(kind, target) ==
    [proto |-> "UBX", identity |-> kind, msgID |-> target]

DataFrame(proto, identity) ==
    [proto |-> proto, identity |-> identity, msgID |-> "none"]

\* bytes the codec cannot decode (a bad checksum, an unknown header)
MalformedFrame == [proto |-> "none", identity |-> "malformed", msgID |-> "none"]

\* the frames the device sends on its own; the acknowledgement of "unknown"
\* names a class and message id that pyubx2 has no name for
DeviceFrames ==
    { AckFrame("ACK-ACK", "CFG-VALSET"), AckFrame("ACK-NAK", "CFG-VALSET"),
      AckFrame("ACK-ACK", "unknown"),
      DataFrame("NMEA", "GNGGA"), DataFrame("UBX", "NAV-SVIN"),
      MalformedFrame }

\* mutant: only the negative acknowledgement counts as one
is_message_ublox_acknowledge_NakOnly(message) ==
    IF message.proto = "UBX"
    THEN message.identity \in {"ACK-NAK"}
    ELSE FALSE

\* ubx_utils.py 127-133
is_message_ublox_acknowledge(message) ==
    IF message.proto = "UBX"
    THEN message.identity \in {"ACK-ACK", "ACK-NAK"}
    ELSE FALSE

(***************************************************************************)
(* str(ack_message) and re.search("msgID=([A-Z]+-[A-Z]+)", ...).           *)
(***************************************************************************)
\* The text of str(ack_message) that follows "msgID=": the name of the
\* acknowledged message when pyubx2 knows it, else the bytes literal b'..',
\* then the closing ")>".
AckMessageStringAfterMsgID(ack_message) ==
    IF ack_message.msgID \in CommandIdentities
    THEN IdentityChars(ack_message.msgID) \o <<")", ">">>
    ELSE <<"b", "'", "\\", "x", "'", ")", ">">>

\* the length of the longest run of [A-Z] that starts at position i of s
RECURSIVE UpperRun(_, _)
UpperRun(s, i) ==
    IF i <= Len(s) /\ s[i] \in UpperLetters THEN 1 + UpperRun(s, i + 1) ELSE 0

\* match.group(1) of ([A-Z]+-[A-Z]+) at the start of s, or <<>> for no match
RegexGroup(s) ==
    LET n1 == UpperRun(s, 1)
        n2 == UpperRun(s, n1 + 2)
    IN  IF n1 >= 1 /\ n1 + 1 <= Len(s) /\ s[n1 + 1] = "-" /\ n2 >= 1
        THEN SubSeq(s, 1, n1 + 1 + n2)
        ELSE <<>>

\* mutant: only the positive acknowledgement can be correct
is_ack_message_correct_AckOnly(ack_message, sent_identity) ==
    LET group == RegexGroup(AckMessageStringAfterMsgID(ack_message))
    IN  IF group = <<>> THEN "raise"
        ELSE IF ack_message.identity = "ACK-ACK"
                  /\ IdentityChars(sent_identity) = group
             THEN "true" ELSE "false"

\* ubx_utils.py 93-105: "raise" for RuntimeError, else the comparison
is_ack_message_correct(ack_message, sent_identity) ==
    LET group == RegexGroup(AckMessageStringAfterMsgID(ack_message))
    IN  IF group = <<>> THEN "raise"
        ELSE IF IdentityChars(sent_identity) = group THEN "true" ELSE "false"

(***************************************************************************)
(* math_utils.value_to_precision_integers.  A float is modelled by the     *)
(* decimal it stands for: value is an integer number of 1/ValueUnit, and   *)
(* scaled_value = value * scale_factor is a fraction over ValueUnit.       *)
(***************************************************************************)
\* the values have three decimal places
ValueUnit == 1000

\* the scale factors: 10**2 is the one of the altitude (ubx_utils.py 221-223)
ScaleFactors == {1, 10, 100}

\* decimal_places: 1 for the altitude, 2 by default
DecimalPlaces == {0, 1, 2}

\* the integral part math.modf gives for num/den: truncation towards zero
ModfIntegerPart(num, den) ==
    IF num >= 0 THEN num \div den ELSE -((-num) \div den)

\* round(num/den) of Python 3: to the nearest integer, a tie to the even one
round(num, den) ==
    LET floor == num \div den
        rest == num % den
    IN  IF 2 * rest < den THEN floor
        ELSE IF 2 * rest > den THEN floor + 1
        ELSE IF floor % 2 = 0 THEN floor ELSE floor + 1

\* round(x) for the float x that stands for num/den: a float product is the
\* nearest binary fraction, so at a decimal tie it lies on either side of
\* the tie and round gives either neighbour
FloatRound(num, den) ==
    IF 2 * (num % den) = den
    THEN {num \div den, (num \div den) + 1}
    ELSE {round(num, den)}

\* the pair when the float product lies just inside an integral scaled
\* value: modf gives the integer before it and a fraction of nearly one
JustInside(integer_part, dp) ==
    IF integer_part > 0 THEN {<<integer_part - 1, 10^dp>>}
    ELSE IF integer_part < 0 THEN {<<integer_part + 1, -(10^dp)>>}
    ELSE {}

\* mutant: the fractional part is rounded without the factor 10**decimal_places
value_to_precision_integers_Unscaled(v, sf, dp) ==
    LET scaled_value == v * sf
        integer_part == ModfIntegerPart(scaled_value, ValueUnit)
        fractional_part == scaled_value - integer_part * ValueUnit
    IN  { <<round(integer_part, 1), high>> :
             high \in FloatRound(fractional_part, ValueUnit) }
          \cup (IF fractional_part = 0 THEN JustInside(integer_part, dp) ELSE {})

\* math_utils.py 4-9: the pairs the call can return; scaled_value and
\* fractional_part are numerators over ValueUnit
value_to_precision_integers(v, sf, dp) ==
    LET scaled_value == v * sf
        integer_part == ModfIntegerPart(scaled_value, ValueUnit)
        fractional_part == scaled_value - integer_part * ValueUnit
    IN  { <<round(integer_part, 1), high>> :
             high \in FloatRound(fractional_part * 10^dp, ValueUnit) }
          \cup (IF fractional_part = 0 THEN JustInside(integer_part, dp) ELSE {})

(***************************************************************************)
(* The programs of the controlling thread.                                 *)
(***************************************************************************)
\* execution.py 15-26: do_factory_reset, configure_rtcm3, configure_fixed_mode
StartReceiverScript ==
    <<FactoryResetIdentity, ConfigurationIdentity, ConfigurationIdentity>>

\* start_receiver, and clients of UbloxGnssReceiver.send_message that send
\* one other command
Scripts == {StartReceiverScript, <<"CFG-NAV5">>}

\* the sessions that have a UbloxGnssReceiver
ReceiverSessions == {"receiver", "client"}

(***************************************************************************)
(* Initial state: UbloxGnssReceiver.__init__.  serial.Serial(port=...)     *)
(* opens the port (line 252); no line of the repository closes it, so no   *)
(* action changes serial_is_open.                                          *)
(***************************************************************************)
InitReceiver ==
    /\ serial_is_open = TRUE
    /\ running_queue = 0
    /\ ack_queue = <<>>
    /\ serial_in = <<>>
    /\ serial_out = <<>>
    /\ read_buffer = <<>>
    /\ reader_pc = "idle"
    /\ ctl_pc = IF session = "client" THEN "client" ELSE "start"
    /\ todo \in Scripts
    /\ callback_log = <<>>
    /\ signals = 0
    /\ emitted = 0
    /\ written = 0
    /\ ack_epoch = <<>>
    /\ nak_returns = 0

\* get_rtcm3_tcp_server_thread: the listening socket exists, the thread is
\* not started
InitRelay ==
    /\ rtcm3_bytes_queue = <<>>
    /\ relay_pc = "idle"
    /\ conn = "none"
    /\ listen_backlog = 0
    /\ conn_stream = <<>>
    /\ enqueued = <<>>
    /\ accepted_at = -1
    /\ taken = 0
    /\ flushed = {}
    /\ sent = <<>>

\* a call of value_to_precision_integers with its arguments; the sessions
\* that make no call keep the arguments of no interest fixed
InitEncoder ==
    /\ precision_integers = <<>>
    /\ IF session = "encoder"
       THEN /\ value \in -MaxValue..MaxValue
            /\ scale_factor \in ScaleFactors
            /\ decimal_places \in DecimalPlaces
       ELSE /\ value = 0
            /\ scale_factor = 1
            /\ decimal_places = 0

Init ==
    /\ session \in {"receiver", "client", "relay", "encoder"}
    /\ InitReceiver
    /\ InitRelay
    /\ InitEncoder
    /\ session # "receiver" => todo = StartReceiverScript

(***************************************************************************)
(* The controlling thread.                                                 *)
(***************************************************************************)
\* UbloxGnssReceiver.start
start ==
    /\ session = "receiver" /\ UNCHANGED <<session, serial_is_open, nak_returns, relay_vars, enc_vars>>
    /\ ctl_pc = "start"
    /\ running_queue' = running_queue + 1
    /\ reader_pc' = "loop"
    /\ ctl_pc' = "send"
    /\ UNCHANGED <<ack_queue, serial_in, serial_out, read_buffer, todo,
                   callback_log, signals, emitted, written, ack_epoch>>

\* send_message_to_ublox_gnss_receiver, line 113: serial_port.write
send_write ==
    /\ session = "receiver" /\ UNCHANGED <<session, serial_is_open, nak_returns, relay_vars, enc_vars>>
    /\ ctl_pc = "send"
    /\ serial_out' = Append(serial_out, Head(todo))
    /\ written' = written + 1
    /\ ctl_pc' = "ack_get"
    /\ UNCHANGED <<running_queue, ack_queue, serial_in, read_buffer, reader_pc,
                   todo, callback_log, signals, emitted, ack_epoch>>

\* where the controlling thread goes when a send returned
AfterSend(rest) == IF rest = <<>> THEN "wait" ELSE "send"

\* mutant: a send that fails is caught and the command is sent again
send_ack_RetriesOnFailure ==
    /\ session = "receiver" /\ UNCHANGED <<session, serial_is_open, relay_vars, enc_vars>>
    /\ ctl_pc = "ack_get"
    /\ ack_queue # <<>>
    /\ ack_queue' = Tail(ack_queue)
    /\ ack_epoch' = Tail(ack_epoch)
    /\ IF is_ack_message_correct(Head(ack_queue), Head(todo)) = "true"
       THEN /\ todo' = Tail(todo)
            /\ ctl_pc' = AfterSend(Tail(todo))
            /\ nak_returns' = IF Head(ack_queue).identity = "ACK-NAK"
                              THEN nak_returns + 1 ELSE nak_returns
       ELSE /\ todo' = todo
            /\ ctl_pc' = "send"
            /\ UNCHANGED nak_returns
    /\ UNCHANGED <<running_queue, serial_in, serial_out, read_buffer, reader_pc,
                   callback_log, signals, emitted, written>>

\* send_message_to_ublox_gnss_receiver, lines 114-116: ack_queue.get() blocks
\* while the queue is empty; then the check, which returns or raises
send_ack ==
    /\ session = "receiver" /\ UNCHANGED <<session, serial_is_open, relay_vars, enc_vars>>
    /\ ctl_pc = "ack_get"
    /\ ack_queue # <<>>
    /\ ack_queue' = Tail(ack_queue)
    /\ ack_epoch' = Tail(ack_epoch)
    /\ IF is_ack_message_correct(Head(ack_queue), Head(todo)) = "true"
       THEN /\ todo' = Tail(todo)
            /\ ctl_pc' = AfterSend(Tail(todo))
            /\ nak_returns' = IF Head(ack_queue).identity = "ACK-NAK"
                              THEN nak_returns + 1 ELSE nak_returns
       ELSE /\ todo' = todo
            /\ ctl_pc' = "raised"
            /\ UNCHANGED nak_returns
    /\ UNCHANGED <<running_queue, serial_in, serial_out, read_buffer, reader_pc,
                   callback_log, signals, emitted, written>>

\* wait_until_terminated, lines 287-288: the loop ends when running_queue is empty
wait_until_terminated ==
    /\ session = "receiver" /\ UNCHANGED <<session, serial_is_open, nak_returns, relay_vars, enc_vars>>
    /\ ctl_pc = "wait"
    /\ running_queue = 0
    /\ ctl_pc' = "returned"
    /\ UNCHANGED <<running_queue, ack_queue, serial_in, serial_out, read_buffer,
                   reader_pc, todo, callback_log, signals, emitted,
                   written, ack_epoch>>

\* execution.py 9-12 and 24-25: SIGINT or SIGTERM, once the handlers are
\* installed, runs receiver.stop() in the controlling thread
receiver_stop_signal_handler ==
    /\ session = "receiver" /\ UNCHANGED <<session, serial_is_open, nak_returns, relay_vars, enc_vars>>
    /\ ctl_pc = "wait"
    /\ signals < MaxSignals
    /\ signals' = signals + 1
    /\ ctl_pc' = "stop_get"
    /\ UNCHANGED <<running_queue, ack_queue, serial_in, serial_out, read_buffer,
                   reader_pc, todo, callback_log, emitted,
                   written, ack_epoch>>

\* UbloxGnssReceiver.stop, line 263: running_queue.get() blocks while empty
stop_get ==
    /\ session \in ReceiverSessions /\ UNCHANGED <<session, serial_is_open, nak_returns, relay_vars, enc_vars>>
    /\ ctl_pc = "stop_get"
    /\ running_queue > 0
    /\ running_queue' = running_queue - 1
    /\ ctl_pc' = "stop_join"
    /\ UNCHANGED <<ack_queue, serial_in, serial_out, read_buffer, reader_pc,
                   todo, callback_log, signals, emitted, written, ack_epoch>>

\* UbloxGnssReceiver.stop, line 264: join returns when the thread has ended,
\* by return or by exception; the handler then returns into
\* wait_until_terminated, a client's call returns to the client
stop_join ==
    /\ session \in ReceiverSessions /\ UNCHANGED <<session, serial_is_open, nak_returns, relay_vars, enc_vars>>
    /\ ctl_pc = "stop_join"
    /\ reader_pc \in {"done", "raised"}
    /\ ctl_pc' = IF session = "client" THEN "client" ELSE "wait"
    /\ UNCHANGED <<running_queue, ack_queue, serial_in, serial_out, read_buffer,
                   reader_pc, todo, callback_log, signals, emitted,
                   written, ack_epoch>>

(***************************************************************************)
(* A client of UbloxGnssReceiver that calls start() and stop() in any      *)
(* order, from one thread.                                                 *)
(***************************************************************************)
\* UbloxGnssReceiver.start, lines 259-260: the token is put, then
\* read_messages_thread.start(), which raises RuntimeError when the thread
\* was started before; the client goes on after the exception
client_start ==
    /\ session = "client" /\ UNCHANGED <<session, serial_is_open, nak_returns, relay_vars, enc_vars>>
    /\ ctl_pc = "client"
    /\ running_queue < MaxStarts
    /\ running_queue' = running_queue + 1
    /\ reader_pc' = IF reader_pc = "idle" THEN "loop" ELSE reader_pc
    /\ UNCHANGED <<ack_queue, serial_in, serial_out, read_buffer, ctl_pc, todo,
                   callback_log, signals, emitted, written, ack_epoch>>

\* the client calls UbloxGnssReceiver.stop
client_stop ==
    /\ session = "client" /\ UNCHANGED <<session, serial_is_open, nak_returns, relay_vars, enc_vars>>
    /\ ctl_pc = "client"
    /\ ctl_pc' = "stop_get"
    /\ UNCHANGED <<running_queue, ack_queue, serial_in, serial_out, read_buffer,
                   reader_pc, todo, callback_log, signals, emitted,
                   written, ack_epoch>>

(***************************************************************************)
(* The Reader Loop: read_messages_from_ublox_gnss_receiver.                *)
(***************************************************************************)
\* mutant: the loop does not test the run flag (while True)
reader_loop_IgnoresFlag ==
    /\ session \in ReceiverSessions /\ UNCHANGED <<session, serial_is_open, nak_returns, relay_vars, enc_vars>>
    /\ reader_pc = "loop"
    /\ reader_pc' = "poll"
    /\ UNCHANGED <<running_queue, ack_queue, serial_in, serial_out, read_buffer,
                   ctl_pc, todo, callback_log, signals, emitted,
                   written, ack_epoch>>

\* line 147: while not running_queue.empty()
reader_loop ==
    /\ session \in ReceiverSessions /\ UNCHANGED <<session, serial_is_open, nak_returns, relay_vars, enc_vars>>
    /\ reader_pc = "loop"
    /\ reader_pc' = IF running_queue = 0 THEN "done" ELSE "poll"
    /\ UNCHANGED <<running_queue, ack_queue, serial_in, serial_out, read_buffer,
                   ctl_pc, todo, callback_log, signals, emitted,
                   written, ack_epoch>>

\* line 148: if serial_port.in_waiting
reader_poll ==
    /\ session \in ReceiverSessions /\ UNCHANGED <<session, serial_is_open, nak_returns, relay_vars, enc_vars>>
    /\ reader_pc = "poll"
    /\ reader_pc' = IF serial_in # <<>> THEN "read" ELSE "loop"
    /\ UNCHANGED <<running_queue, ack_queue, serial_in, serial_out, read_buffer,
                   ctl_pc, todo, callback_log, signals, emitted,
                   written, ack_epoch>>

\* what ublox_reader.read() finds in the BufferedReader: the buffer when it
\* holds a frame, else everything the port has (the buffer is filled from it)
FilledBuffer == IF read_buffer = <<>> THEN serial_in ELSE read_buffer

\* what the fill leaves in the port
LeftInPort == IF read_buffer = <<>> THEN <<>> ELSE serial_in

\* quitonerror=pyubx2.ERR_RAISE (line 145): the codec raises on a frame it
\* cannot decode, and lines 147-154 catch nothing
DecodeFails(frame) == frame = MalformedFrame

\* mutant: the callback is called for every decoded frame (the else of line
\* 153 is missing)
reader_read_CallbackForEveryFrame ==
    /\ session \in ReceiverSessions /\ UNCHANGED <<session, serial_is_open, nak_returns, relay_vars, enc_vars>>
    /\ reader_pc = "read"
    /\ serial_in' = LeftInPort
    /\ IF FilledBuffer = <<>>
       THEN /\ reader_pc' = "loop"
            /\ UNCHANGED <<read_buffer, ack_queue, ack_epoch, callback_log>>
       ELSE LET parsed_data == Head(FilledBuffer) IN
            /\ read_buffer' = Tail(FilledBuffer)
            /\ IF DecodeFails(parsed_data)
               THEN /\ reader_pc' = "raised"
                    /\ UNCHANGED <<ack_queue, ack_epoch, callback_log>>
               ELSE /\ reader_pc' = "loop"
                    /\ callback_log' = Append(callback_log, parsed_data)
                    /\ IF is_message_ublox_acknowledge(parsed_data)
                       THEN /\ ack_queue' = Append(ack_queue, parsed_data)
                            /\ ack_epoch' = Append(ack_epoch, written)
                       ELSE UNCHANGED <<ack_queue, ack_epoch>>
    /\ UNCHANGED <<running_queue, serial_out, ctl_pc, todo, signals,
                   emitted, written>>

\* lines 149-154: ublox_reader.read(), then the routing of the frame
reader_read ==
    /\ session \in ReceiverSessions /\ UNCHANGED <<session, serial_is_open, nak_returns, relay_vars, enc_vars>>
    /\ reader_pc = "read"
    /\ serial_in' = LeftInPort
    /\ IF FilledBuffer = <<>>
       THEN \* the read timed out: (None, None)
            /\ reader_pc' = "loop"
            /\ UNCHANGED <<read_buffer, ack_queue, ack_epoch, callback_log>>
       ELSE LET parsed_data == Head(FilledBuffer) IN
            /\ read_buffer' = Tail(FilledBuffer)
            /\ IF DecodeFails(parsed_data)
               THEN /\ reader_pc' = "raised"
                    /\ UNCHANGED <<ack_queue, ack_epoch, callback_log>>
               ELSE /\ reader_pc' = "loop"
                    /\ IF is_message_ublox_acknowledge(parsed_data)
                       THEN /\ ack_queue' = Append(ack_queue, parsed_data)
                            /\ ack_epoch' = Append(ack_epoch, written)
                            /\ UNCHANGED callback_log
                       ELSE /\ callback_log' = Append(callback_log, parsed_data)
                            /\ UNCHANGED <<ack_queue, ack_epoch>>
    /\ UNCHANGED <<running_queue, serial_out, ctl_pc, todo, signals,
                   emitted, written>>

(***************************************************************************)
(* The device at the other end of the serial port.                         *)
(***************************************************************************)
\* the device answers the oldest command it has not answered with one
\* positive acknowledgement that names it
device_answer ==
    /\ session = "receiver" /\ UNCHANGED <<session, serial_is_open, nak_returns, relay_vars, enc_vars>>
    /\ serial_out # <<>>
    /\ serial_out' = Tail(serial_out)
    /\ serial_in' = Append(serial_in, AckFrame("ACK-ACK", Head(serial_out)))
    /\ UNCHANGED <<running_queue, ack_queue, read_buffer, reader_pc, ctl_pc, todo,
                   callback_log, signals, emitted, written, ack_epoch>>

\* the device sends a frame on its own: telemetry, a late or repeated
\* acknowledgement, noise on the line
device_emit ==
    /\ session = "receiver" /\ UNCHANGED <<session, serial_is_open, nak_returns, relay_vars, enc_vars>>
    /\ emitted < MaxFrames
    /\ \E frame \in DeviceFrames :
          /\ serial_in' = Append(serial_in, frame)
    /\ emitted' = emitted + 1
    /\ UNCHANGED <<running_queue, ack_queue, serial_out, read_buffer, reader_pc,
                   ctl_pc, todo, callback_log, signals, written, ack_epoch>>

(***************************************************************************)
(* The Correction Relay: start_rtcm3_tcp_server_streaming, its producer,   *)
(* its consumer and the owner of its run flag.                             *)
(***************************************************************************)
\* the correction blocks: byte strings
Blocks == { <<1>>, <<2, 3>> }

\* the owner of the relay puts the run token and starts the thread
\* returned by get_rtcm3_tcp_server_thread
relay_thread_start ==
    /\ session = "relay" /\ UNCHANGED <<session, recv_rest, enc_vars>>
    /\ relay_pc = "idle"
    /\ running_queue' = running_queue + 1
    /\ relay_pc' = "accept"
    /\ UNCHANGED <<rtcm3_bytes_queue, conn, listen_backlog, conn_stream, enqueued, accepted_at,
                   taken, flushed, sent>>

\* the owner of the relay takes the run token: running_queue.get()
relay_owner_stop ==
    /\ session = "relay" /\ UNCHANGED <<session, recv_rest, enc_vars>>
    /\ relay_pc # "idle"
    /\ running_queue > 0
    /\ running_queue' = running_queue - 1
    /\ UNCHANGED relay_vars

\* the producer: rtcm3_bytes_queue.put(block)
producer_put ==
    /\ session = "relay" /\ UNCHANGED <<session, running_queue, recv_rest, enc_vars>>
    /\ Len(enqueued) < MaxBlocks
    /\ \E block \in Blocks :
          /\ rtcm3_bytes_queue' = Append(rtcm3_bytes_queue, block)
          /\ enqueued' = Append(enqueued, block)
    /\ UNCHANGED <<relay_pc, conn, listen_backlog, conn_stream, accepted_at, taken, flushed, sent>>

\* the consumer connects to the listening socket
consumer_connect ==
    /\ session = "relay" /\ UNCHANGED <<session, running_queue, recv_rest, enc_vars>>
    /\ conn = "none"
    /\ conn' = "pending"
    /\ UNCHANGED <<rtcm3_bytes_queue, relay_pc, listen_backlog, conn_stream,
                   enqueued, accepted_at, taken, flushed, sent>>

\* the consumer closes the accepted connection
consumer_close ==
    /\ session = "relay" /\ UNCHANGED <<session, running_queue, recv_rest, enc_vars>>
    /\ conn = "open"
    /\ conn' = "closed"
    /\ UNCHANGED <<rtcm3_bytes_queue, relay_pc, listen_backlog, conn_stream,
                   enqueued, accepted_at, taken, flushed, sent>>

\* a further consumer connects to the listening socket, which stays open
\* (line 28) after the first consumer was accepted
consumer_connect_late ==
    /\ session = "relay" /\ UNCHANGED <<session, running_queue, recv_rest, enc_vars>>
    /\ conn \in {"open", "closed"}
    /\ listen_backlog < MaxLateConsumers
    /\ listen_backlog' = listen_backlog + 1
    /\ UNCHANGED <<rtcm3_bytes_queue, relay_pc, conn, conn_stream, enqueued,
                   accepted_at, taken, flushed, sent>>

\* line 12: server.accept() returns the consumer's connection
relay_accept ==
    /\ session = "relay" /\ UNCHANGED <<session, running_queue, recv_rest, enc_vars>>
    /\ relay_pc = "accept"
    /\ conn = "pending"
    /\ conn' = "open"
    /\ accepted_at' = Len(enqueued)
    /\ relay_pc' = "flush"
    /\ UNCHANGED <<rtcm3_bytes_queue, listen_backlog, conn_stream, enqueued,
                   taken, flushed, sent>>

\* line 12: server.accept() raises socket.timeout (server.settimeout, line 29)
relay_accept_timeout ==
    /\ session = "relay" /\ UNCHANGED <<session, running_queue, recv_rest, enc_vars>>
    /\ relay_pc = "accept"
    /\ conn = "none"
    /\ relay_pc' = "raised"
    /\ UNCHANGED <<rtcm3_bytes_queue, conn, listen_backlog, conn_stream, enqueued, accepted_at,
                   taken, flushed, sent>>

\* mutant: the backlog is not discarded after accept()
relay_flush_KeepsBacklog ==
    /\ session = "relay" /\ UNCHANGED <<session, running_queue, recv_rest, enc_vars>>
    /\ relay_pc = "flush"
    /\ relay_pc' = "outer"
    /\ UNCHANGED <<rtcm3_bytes_queue, taken, flushed, conn, listen_backlog, conn_stream,
                   enqueued, accepted_at, sent>>

\* lines 13-14: while not rtcm3_bytes_queue.empty(): _ = rtcm3_bytes_queue.get()
\* (the relay is the only thread that gets, so the get takes the head that the
\* test saw)
relay_flush ==
    /\ session = "relay" /\ UNCHANGED <<session, running_queue, recv_rest, enc_vars>>
    /\ relay_pc = "flush"
    /\ IF rtcm3_bytes_queue # <<>>
       THEN /\ rtcm3_bytes_queue' = Tail(rtcm3_bytes_queue)
            /\ taken' = taken + 1
            /\ flushed' = flushed \cup {taken + 1}
            /\ UNCHANGED relay_pc
       ELSE /\ relay_pc' = "outer"
            /\ UNCHANGED <<rtcm3_bytes_queue, taken, flushed>>
    /\ UNCHANGED <<conn, listen_backlog, conn_stream, enqueued, accepted_at, sent>>

\* line 15: while not running_queue.empty()
relay_outer ==
    /\ session = "relay" /\ UNCHANGED <<session, running_queue, recv_rest, enc_vars>>
    /\ relay_pc = "outer"
    /\ relay_pc' = IF running_queue = 0 THEN "done" ELSE "inner"
    /\ UNCHANGED <<rtcm3_bytes_queue, conn, listen_backlog, conn_stream, enqueued, accepted_at,
                   taken, flushed, sent>>

\* mutant: conn.send(data) that writes the first byte only
sendall_FirstByteOnly(stream, data) == stream \o <<Head(data)>>

\* conn.sendall(data): every byte of data, in order
sendall(stream, data) == stream \o data

\* mutant: a failed write is caught and the relay accepts the next consumer
relay_inner_AcceptsAgain ==
    /\ session = "relay" /\ UNCHANGED <<session, running_queue, recv_rest, enc_vars>>
    /\ relay_pc = "inner"
    /\ IF rtcm3_bytes_queue = <<>>
       THEN /\ relay_pc' = "outer"
            /\ UNCHANGED <<rtcm3_bytes_queue, taken, flushed, conn_stream, sent>>
       ELSE /\ rtcm3_bytes_queue' = Tail(rtcm3_bytes_queue)
            /\ taken' = taken + 1
            /\ IF conn = "open"
               THEN /\ conn_stream' = sendall(conn_stream, Head(rtcm3_bytes_queue))
                    /\ sent' = Append(sent, taken + 1)
                    /\ UNCHANGED <<relay_pc, flushed>>
               ELSE /\ relay_pc' = "accept"
                    /\ flushed' = flushed \cup {taken + 1}
                    /\ UNCHANGED <<conn_stream, sent>>
    /\ UNCHANGED <<conn, listen_backlog, enqueued, accepted_at>>

\* lines 16-18: while not rtcm3_bytes_queue.empty(): get, then conn.sendall,
\* which raises when the consumer has closed the connection
relay_inner ==
    /\ session = "relay" /\ UNCHANGED <<session, running_queue, recv_rest, enc_vars>>
    /\ relay_pc = "inner"
    /\ IF rtcm3_bytes_queue = <<>>
       THEN /\ relay_pc' = "outer"
            /\ UNCHANGED <<rtcm3_bytes_queue, taken, flushed, conn_stream, sent>>
       ELSE /\ rtcm3_bytes_queue' = Tail(rtcm3_bytes_queue)
            /\ taken' = taken + 1
            /\ IF conn = "open"
               THEN /\ conn_stream' = sendall(conn_stream, Head(rtcm3_bytes_queue))
                    /\ sent' = Append(sent, taken + 1)
                    /\ UNCHANGED <<relay_pc, flushed>>
               ELSE /\ relay_pc' = "raised"
                    /\ flushed' = flushed \cup {taken + 1}
                    /\ UNCHANGED <<conn_stream, sent>>
    /\ UNCHANGED <<conn, listen_backlog, enqueued, accepted_at>>

(***************************************************************************)
(* A call of value_to_precision_integers, as get_fixed_mode_for_ublox_     *)
(* gnss_receiver makes three of.                                           *)
(***************************************************************************)
encode ==
    /\ session = "encoder" /\ UNCHANGED <<session, running_queue, recv_rest, relay_vars>>
    /\ precision_integers = <<>>
    /\ precision_integers' \in
          value_to_precision_integers(value, scale_factor, decimal_places)
    /\ UNCHANGED <<value, scale_factor, decimal_places>>

RelayNext ==
    \/ relay_thread_start
    \/ relay_owner_stop
    \/ producer_put
    \/ consumer_connect
    \/ consumer_close
    \/ consumer_connect_late
    \/ relay_accept
    \/ relay_accept_timeout
    \/ relay_flush
    \/ relay_outer
    \/ relay_inner

ReceiverNext ==
    \/ start
    \/ send_write
    \/ send_ack
    \/ wait_until_terminated
    \/ receiver_stop_signal_handler
    \/ stop_get
    \/ stop_join
    \/ client_start
    \/ client_stop
    \/ reader_loop
    \/ reader_poll
    \/ reader_read
    \/ device_answer
    \/ device_emit

Next == ReceiverNext \/ RelayNext \/ encode

Spec == Init /\ [][Next]_vars

(***************************************************************************)
(* Fair scheduling: every thread that can take its next step takes it, the *)
(* device answers the commands it was sent, accept() returns or times out, *)
(* and a termination signal is delivered while the process waits for one.  *)
(* The device's own frames, the producer, the consumer and the owner of    *)
(* the relay's run flag are under no obligation.                           *)
(***************************************************************************)
\* the steps of the controlling thread
ControllerStep ==
    \/ start
    \/ send_write
    \/ send_ack
    \/ wait_until_terminated
    \/ receiver_stop_signal_handler
    \/ stop_get
    \/ stop_join

\* the steps of read_messages_thread
ReaderStep == reader_loop \/ reader_poll \/ reader_read

\* the steps of the relay thread
RelayStep ==
    \/ relay_accept
    \/ relay_accept_timeout
    \/ relay_flush
    \/ relay_outer
    \/ relay_inner

Fairness ==
    /\ WF_vars(ControllerStep)
    /\ WF_vars(ReaderStep)
    /\ WF_vars(device_answer)
    /\ WF_vars(RelayStep)

FairSpec == Init /\ [][Next]_vars /\ Fairness

(***************************************************************************)
(* Helpers of the properties.                                              *)
(***************************************************************************)
\* the controlling thread completes a call of send_message in this step
SendCompletes == ctl_pc = "ack_get" /\ ctl_pc' # "ack_get"

\* the elements of a sequence
Range(s) == { s[i] : i \in DOMAIN s }

\* the concatenation of the blocks of enqueued at the positions of idx
RECURSIVE BlocksAt(_)
BlocksAt(idx) ==
    IF idx = <<>> THEN <<>> ELSE enqueued[Head(idx)] \o BlocksAt(Tail(idx))

\* the loop of the session (the Reader Loop, the relay's loop) was started
LoopStarted ==
    IF session \in ReceiverSessions THEN reader_pc # "idle" ELSE relay_pc # "idle"

\* the loop of the session has ended, by return or by exception
LoopExited ==
    IF session \in ReceiverSessions
    THEN reader_pc \in {"done", "raised"}
    ELSE relay_pc \in {"done", "raised"}

(***************************************************************************)
(* C1.  A decoding failure on one frame does not end the Reader Loop:      *)
(* while the run flag is active the reader thread has not ended, so that   *)
(* the well-formed frames after a malformed one still reach the callback.  *)
(***************************************************************************)
C1_DecodeFailureKeepsLoopRunning ==
    running_queue > 0 => reader_pc \notin {"raised", "done"}

(***************************************************************************)
(* C2.  A call of send_message returns (does not raise) exactly when the   *)
(* acknowledgement it took from ack_queue names the identity of the        *)
(* command that was sent.                                                  *)
(***************************************************************************)
C2_SendSucceedsIffIdentityMatches ==
    [][SendCompletes =>
         ((ctl_pc' # "raised") <=> (Head(ack_queue).msgID = Head(todo)))]_vars

(***************************************************************************)
(* C3.  A completed call of send_message removes exactly one entry from    *)
(* ack_queue, and when it returns without raising ack_queue is empty.      *)
(***************************************************************************)
C3_SendConsumesOneAndLeavesNone ==
    [][SendCompletes =>
         /\ Len(ack_queue') = Len(ack_queue) - 1
         /\ (ctl_pc' # "raised" => ack_queue' = <<>>)]_vars

(***************************************************************************)
(* C4.  A call of send_message never accepts an acknowledgement that was   *)
(* put on ack_queue before the call wrote its command to the serial port:  *)
(* the acknowledgement it checks and finds correct was put after the       *)
(* write.                                                                  *)
(***************************************************************************)
C4_AckWasPutAfterTheWrite ==
    [][(SendCompletes /\ ctl_pc' # "raised") => Head(ack_epoch) = written]_vars

(***************************************************************************)
(* C5.  ack_queue is single-slot: it never holds more than one             *)
(* acknowledgement frame.                                                  *)
(***************************************************************************)
C5_AckQueueSingleSlot == Len(ack_queue) <= 1

(***************************************************************************)
(* C6.  No block put on rtcm3_bytes_queue before accept() returned is      *)
(* written to the consumer: every block written was put after it.          *)
(***************************************************************************)
C6_NoStaleBlockWritten ==
    \A i \in Range(sent) : i > accepted_at

\* two blocks were queued before accept() returned and a later one was written
C6_Witness ==
    /\ accepted_at >= 2
    /\ sent # <<>>

(***************************************************************************)
(* C7.  No block put on rtcm3_bytes_queue after accept() returned is       *)
(* discarded while the consumer stays connected: the blocks got and not    *)
(* written were all put before accept() returned.                          *)
(***************************************************************************)
C7_NoFreshBlockDiscarded ==
    conn # "closed" => \A i \in flushed : i <= accepted_at

(***************************************************************************)
(* C8.  The bytes written to the consumer are the blocks at increasing     *)
(* positions of the sequence the producer put, each whole, unmodified and  *)
(* once, with nothing between them.                                        *)
(***************************************************************************)
C8_WrittenIsFifoSubsequence ==
    /\ \A k \in DOMAIN sent : sent[k] \in DOMAIN enqueued
    /\ \A j, k \in DOMAIN sent : j < k => sent[j] < sent[k]
    /\ conn_stream = BlocksAt(sent)

\* a block was discarded, then a one-byte and a two-byte block were written
C8_Witness ==
    /\ flushed # {}
    /\ Len(sent) = 2
    /\ Len(conn_stream) = 3

(***************************************************************************)
(* C9.  Once the run flag is no longer active, the Reader Loop and the     *)
(* relay's forwarding loop each end, even when nothing more arrives.       *)
(***************************************************************************)
C9_LoopsExitAfterStop ==
    (running_queue = 0 /\ LoopStarted) ~> LoopExited

\* stop() took the run token and the Reader Loop returned
C9_Witness ==
    /\ signals = 1
    /\ running_queue = 0
    /\ reader_pc = "done"
    /\ ctl_pc = "stop_join"

OnStartReceiver ==
    /\ session = "receiver"
    /\ \E k \in 0..Len(StartReceiverScript) :
          todo = SubSeq(StartReceiverScript, k + 1, Len(StartReceiverScript))

\* the sends of start_receiver that returned without raising
SendsReturned == Len(StartReceiverScript) - Len(todo)

(***************************************************************************)
(* C11.  In start_receiver a command is written to the serial port only    *)
(* when every earlier send has returned without raising, and the commands  *)
(* are written in the order factory reset, RTCM3 configuration,            *)
(* positioning mode; a send whose acknowledgement is not found correct     *)
(* raises, and after that no command is written any more.                  *)
(***************************************************************************)
C11_StartupInOrderAndAbortsOnFailure ==
    [][OnStartReceiver =>
         /\ written' # written =>
              /\ written = SendsReturned
              /\ written' = written + 1
              /\ serial_out' = Append(serial_out, StartReceiverScript[written + 1])
         /\ (SendCompletes /\ todo' = todo) => ctl_pc' = "raised"
         /\ ctl_pc = "raised" => (ctl_pc' = "raised" /\ written' = written)]_vars

\* the factory reset was acknowledged, the send of the RTCM3 configuration
\* raised, and the positioning mode was never written
C11_Witness ==
    /\ OnStartReceiver
    /\ ctl_pc = "raised"
    /\ written = 2
    /\ SendsReturned = 1
    /\ serial_out = <<>>

\* the run state that running_queue and the reader thread encode
RunState ==
    IF running_queue > 0 THEN "Running"
    ELSE IF reader_pc = "idle" THEN "NotStarted" ELSE "Stopped"

(***************************************************************************)
(* C12.  The run state of a receiver only moves NotStarted, Running,       *)
(* Stopped: no step of a session with a receiver leaves Stopped, and       *)
(* Running is entered from NotStarted only.                                *)
(***************************************************************************)
C12_RunStateMonotonic ==
    [][(session \in ReceiverSessions) =>
         /\ RunState = "Stopped" => RunState' = "Stopped"
         /\ (RunState # "Running" /\ RunState' = "Running")
               => (RunState = "NotStarted")]_vars

(***************************************************************************)
(* C13.  The relay serves one consumer per lifetime: accept() is reached   *)
(* from the start of the thread only and returns at most once; a block     *)
(* taken while the consumer's connection is not open is not written and    *)
(* ends the relay thread; once the thread has ended by an exception it     *)
(* takes no block, writes nothing and accepts no later consumer.           *)
(***************************************************************************)
C13_OneConsumerPerLifetime ==
    [][(session = "relay") =>
         /\ (relay_pc' = "accept") => (relay_pc \in {"idle", "accept"})
         /\ (accepted_at' # accepted_at) => (accepted_at = -1 /\ relay_pc = "accept")
         /\ (relay_pc = "inner" /\ taken' # taken /\ conn # "open")
               => (relay_pc' = "raised" /\ conn_stream' = conn_stream)
         /\ (relay_pc = "raised")
               => (/\ relay_pc' = "raised"
                   /\ taken' = taken
                   /\ Len(rtcm3_bytes_queue') >= Len(rtcm3_bytes_queue)
                   /\ conn_stream' = conn_stream
                   /\ accepted_at' = accepted_at
                   /\ listen_backlog' >= listen_backlog)]_vars

\* a block was written, the consumer closed, the next write failed; a block
\* stays on the queue and a later consumer waits on the listening socket
C13_Witness ==
    /\ relay_pc = "raised"
    /\ conn = "closed"
    /\ sent # <<>>
    /\ rtcm3_bytes_queue # <<>>
    /\ listen_backlog = 1

\* the threads whose next step is an operation on the serial port: the
\* controlling thread at serial_port.write (line 113), the reader thread at
\* serial_port.in_waiting (line 148) or ublox_reader.read() (line 149)
SerialPortUsers ==
    (IF ctl_pc = "send" THEN {"controller"} ELSE {})
      \cup (IF reader_pc \in {"poll", "read"} THEN {"reader"} ELSE {})

(***************************************************************************)
(* C14.  The serial port is used by one thread: in no state do two         *)
(* threads stand before an operation on the serial port, the controlling   *)
(* thread before its write and the reader thread before its availability   *)
(* check or its read.                                                      *)
(***************************************************************************)
C14_SerialPortUsedByOneThread ==
    Cardinality(SerialPortUsers) <= 1

(***************************************************************************)
(* C15.  After the stop() that a termination signal ran has returned, the  *)
(* serial port the receiver opened is closed.                              *)
(***************************************************************************)
C15_SerialPortClosedAfterStop ==
    (session = "receiver" /\ signals > 0 /\ ctl_pc \in {"wait", "returned"})
      => ~serial_is_open

\* the frames that arrived and were not decoded, in arrival order: the
\* read-ahead buffer was filled before what is still in the port arrived
Undecoded == read_buffer \o serial_in

\* the reader thread decodes a frame and routes it in this step
ReaderDecodes ==
    /\ reader_pc = "read"
    /\ reader_pc' = "loop"
    /\ Undecoded # <<>>

\* Acknowledgement, by the classification rule: a UBX message whose identity
\* is the positive or the negative acknowledgement
IsAcknowledgement(frame) ==
    frame.proto = "UBX" /\ frame.identity \in {"ACK-ACK", "ACK-NAK"}

(***************************************************************************)
(* C16.  The Reader Loop routes every frame it decodes to one destination: *)
(* the frame decoded is the oldest one not yet decoded; an Acknowledgement *)
(* is appended to ack_queue and does not reach the callback, every other   *)
(* frame is appended to the frames passed to the callback and does not     *)
(* reach ack_queue; no other step passes a frame to either.  So ack_queue  *)
(* holds Acknowledgements only, the callback gets Data only, and Data      *)
(* reach the callback in arrival order.                                    *)
(***************************************************************************)
C16_EveryFrameToOneDestination ==
    [][/\ ReaderDecodes =>
            (/\ Undecoded' = Tail(Undecoded)
             /\ IF IsAcknowledgement(Head(Undecoded))
                THEN /\ ack_queue' = Append(ack_queue, Head(Undecoded))
                     /\ callback_log' = callback_log
                ELSE /\ callback_log' = Append(callback_log, Head(Undecoded))
                     /\ ack_queue' = ack_queue)
       /\ ~ReaderDecodes =>
            (/\ callback_log' = callback_log
             /\ \/ ack_queue' = ack_queue
                \/ ack_queue # <<>> /\ ack_queue' = Tail(ack_queue))
       /\ \A k \in DOMAIN ack_queue' : IsAcknowledgement(ack_queue'[k])
       /\ \A k \in DOMAIN callback_log' : ~IsAcknowledgement(callback_log'[k])]_vars

\* an NMEA frame and then a UBX frame that is no acknowledgement were passed
\* to the callback, and an acknowledgement is on ack_queue
C16_Witness ==
    /\ Len(callback_log) = 2
    /\ callback_log[1].proto = "NMEA"
    /\ callback_log[2] = DataFrame("UBX", "NAV-SVIN")
    /\ ack_queue # <<>>

\* the absolute value of an integer
Abs(n) == IF n >= 0 THEN n ELSE -n

(***************************************************************************)
(* C17.  The pair value_to_precision_integers returns reconstructs its     *)
(* argument: (standard_part + high_precision_part / 10^decimal_places) /   *)
(* scale_factor differs from value by at most 10^-decimal_places /         *)
(* scale_factor.  Both sides are multiplied by ValueUnit * scale_factor *  *)
(* 10^decimal_places, which makes them integers.                           *)
(***************************************************************************)
C17_PairReconstructsValue ==
    precision_integers # <<>> =>
        Abs(precision_integers[1] * 10^decimal_places * ValueUnit
              + precision_integers[2] * ValueUnit
              - value * scale_factor * 10^decimal_places) <= ValueUnit

\* -0.025 scaled by 10 is -0.25: integral part 0, and -2.5 is rounded to -2
C17_Witness ==
    /\ value = -25
    /\ scale_factor = 10
    /\ decimal_places = 1
    /\ precision_integers = <<0, -2>>

(***************************************************************************)
(* C18.  A frame that was pulled into the read-ahead buffer is not left    *)
(* undecoded: when the reader thread makes its availability check with a   *)
(* frame in the buffer, it goes on to read and decode, whether or not      *)
(* more bytes have arrived at the port.                                    *)
(***************************************************************************)
C18_BufferedFrameIsDecoded ==
    [][(reader_pc = "poll" /\ read_buffer # <<>> /\ reader_pc' # "poll")
          => (reader_pc' = "read")]_vars

(***************************************************************************)
(* C19.  The outcome of a send depends on the identity the acknowledgement *)
(* names and not on its variant: a send that takes an ACK-NAK naming the   *)
(* command it sent returns without raising and the controlling thread goes *)
(* on to its next step; and every send ends as it would have ended on the  *)
(* other variant of the same acknowledgement.                              *)
(***************************************************************************)
C19_NegativeAcknowledgementIsSuccess ==
    [][SendCompletes =>
         /\ (Head(ack_queue).identity = "ACK-NAK" /\ Head(ack_queue).msgID = Head(todo))
               => (todo' = Tail(todo) /\ ctl_pc' = AfterSend(Tail(todo)))
         /\ (ctl_pc' = "raised")
               <=> (is_ack_message_correct(AckFrame("ACK-ACK", Head(ack_queue).msgID),
                                           Head(todo)) # "true")]_vars

\* start_receiver: the send of the RTCM3 configuration returned on an
\* ACK-NAK, and the positioning mode was written after it
C19_Witness ==
    /\ OnStartReceiver
    /\ nak_returns = 1
    /\ written = 3
    /\ todo = <<ConfigurationIdentity>>

(***************************************************************************)
(* C20.  A call of stop() does not block on the run flag: stop() is never  *)
(* at running_queue.get() with running_queue empty, be it a second         *)
(* termination signal after the first stop() or a stop() before start().   *)
(***************************************************************************)
C20_StopNeverBlocks ==
    ~(ctl_pc = "stop_get" /\ running_queue = 0)

====
